---- MODULE Spec2Model ----
(***************************************************************************)
(* Model of llm_tool_harness: the tool registry (tool.py), the Anthropic   *)
(* provider's response normalisation (providers/anthropic.py), the message *)
(* helpers (utils.py) and the agent's tool-calling loop (agent.py).        *)
(*                                                                         *)
(* Python values are represented as follows:                               *)
(*   Optional[X]   the empty tuple (None) or a one-element tuple <<x>>     *)
(*   str           a TLA+ string                                           *)
(*   dict          a record; an absent key is a field that is not in the   *)
(*                 record's DOMAIN                                         *)
(*   list          a sequence                                              *)
(*   other values  a tagged record [t |-> "int", v |-> 4]                  *)
(***************************************************************************)
EXTENDS Integers, Sequences, FiniteSets, TLC

VARIABLES
    llm,                    \* LLMAgent.llm: which LLMProvider the agent was built with
    system_prompt,          \* LLMAgent.system_prompt
    max_tool_iterations,    \* LLMAgent.max_tool_iterations
    tool_registry,          \* ToolRegistry._tools: a dict, kept in insertion order
    messages,               \* LLMAgent.messages
    pc,                     \* position in process_message: "idle", "loop", "tools"
    current_iteration,      \* local of process_message
    text_response,          \* local of process_message
    tool_calls,             \* local of process_message
    tool_index,             \* position of `for tool_call in tool_calls`
    tool_results_for_next_iteration,  \* local of process_message
    outcome,                \* how the last call of the public API ended
    llm_calls,              \* chat_completion invocations of the current turn
    request,                \* the api_params of the last chat_completion
    responses,              \* what chat_completion returned in the current turn
    response_at,            \* Len(messages) when the last response arrived
    executed,               \* Tool.execute invocations of the current turn
    register_arg,           \* the argument of the last register_tool call
    first_registered,       \* per name, the first tool register_tool was given
    response_content        \* response.content the adapter is normalising

vars == <<llm, system_prompt, max_tool_iterations, tool_registry, messages, pc,
          current_iteration,
          text_response, tool_calls, tool_index, tool_results_for_next_iteration,
          outcome, llm_calls, request, responses, response_at, executed,
          register_arg,
          first_registered, response_content>>

(***************************************************************************)
(* Bounds of the model.                                                    *)
(***************************************************************************)
\* max_tool_iterations is drawn from 0..MaxIter at construction.
MaxIter == 2
\* The public API (register_tool, process_message) is only called while the
\* history is shorter than this.
MaxMessages == 3

(***************************************************************************)
(* Python helpers.                                                         *)
(***************************************************************************)
None == <<>>
Some(x) == <<x>>

\* dict.get(key): the value, or None when the key is absent.
Get(d, k) == IF k \in DOMAIN d THEN Some(d[k]) ELSE None

\* Truth value of an Optional[str]: None and "" are falsy.
TruthyStr(o) == o # None /\ o[1] # ""

\* Truth value of an Optional[list] / Optional[dict-as-message].
TruthyList(o) == o # None /\ o[1] # <<>>
TruthyMsg(o) == o # None

\* str(x) for the values tools return here.
IntToStr(n) ==
    CASE n = 0 -> "0" [] n = 1 -> "1" [] n = 2 -> "2" [] n = 3 -> "3"
      [] n = 4 -> "4" [] n = 5 -> "5" [] n = 6 -> "6" [] n = 7 -> "7"
      [] n = 8 -> "8" [] n = 9 -> "9"
      [] OTHER -> "<int>"

Str(x) == IF x.t = "str" THEN x.v ELSE IntToStr(x.v)

\* repr() of a str -> str dict with the keys listed in insertion order.
RECURSIVE ReprItems(_, _)
ReprItems(d, keys) ==
    IF keys = <<>> THEN ""
    ELSE "'" \o Head(keys) \o "': '" \o d[Head(keys)] \o "'"
         \o (IF Len(keys) > 1 THEN ", " ELSE "")
         \o ReprItems(d, Tail(keys))

InputKeys(d) ==
    IF "expr" \in DOMAIN d THEN <<"expr">>
    ELSE IF "command" \in DOMAIN d THEN <<"command">> ELSE <<>>

ReprInput(d) == "{" \o ReprItems(d, InputKeys(d)) \o "}"

\* repr() of a ToolCall dict: the keys present, in the order the adapter sets them.
ReprToolCall(c) ==
    LET id   == IF "id" \in DOMAIN c THEN <<"'id': '" \o c.id \o "'">> ELSE <<>>
        name == IF "name" \in DOMAIN c THEN <<"'name': '" \o c.name \o "'">> ELSE <<>>
        inp  == IF "input" \in DOMAIN c
                THEN <<"'input': " \o ReprInput(c.input)>> ELSE <<>>
        typ  == IF "type" \in DOMAIN c THEN <<"'type': '" \o c.type \o "'">> ELSE <<>>
        parts == id \o name \o inp \o typ
        Join[i \in 0..Len(parts)] ==
            IF i = 0 THEN ""
            ELSE Join[i - 1] \o (IF i > 1 THEN ", " ELSE "") \o parts[i]
    IN "{" \o Join[Len(parts)] \o "}"

\* Whether string `sub` occurs in string `s`.
Contains(s, sub) ==
    \E i \in 1..(Len(s) - Len(sub) + 1) : SubSeq(s, i, i + Len(sub) - 1) = sub

(***************************************************************************)
(* tool.py: Tool and ToolRegistry.                                         *)
(***************************************************************************)
\* The callables tools are built from.  "evaluate" is calc(expr) returning a
\* number, "constant" is calc(expr) returning a fixed string, "bash" is
\* execute_bash_command(command) of the example.
ParamOf(implementation) == IF implementation = "bash" THEN "command" ELSE "expr"

Return(v) == [kind |-> "return", value |-> v]
Raise(text) == [kind |-> "raise", text |-> text]

\* implementation(**kwargs): the value returned or the str() of the exception.
CallImplementation(implementation, kwargs) ==
    LET p == ParamOf(implementation) IN
    IF p \notin DOMAIN kwargs
    THEN Raise("missing 1 required positional argument: '" \o p \o "'")
    ELSE IF DOMAIN kwargs # {p}
    THEN Raise("got an unexpected keyword argument")
    ELSE CASE implementation = "evaluate" ->
                IF kwargs[p] = "2+2" THEN Return([t |-> "int", v |-> 4])
                ELSE Raise("division by zero")
           [] implementation = "constant" -> Return([t |-> "str", v |-> "42"])
           [] OTHER ->
                Return([t |-> "str",
                        v |-> "STDOUT:\nhi\n\nSTDERR:\n\nEXIT CODE: 0"])

Tool(name, description, implementation) ==
    [name |-> name, description |-> description,
     input_schema |-> [type |-> "object",
                       required |-> <<ParamOf(implementation)>>],
     implementation |-> implementation]

\* Tool.get_definition
get_definition(tool) ==
    [name |-> tool.name, description |-> tool.description,
     input_schema |-> tool.input_schema]

\* Tool.execute
execute(tool, kwargs) == CallImplementation(tool.implementation, kwargs)

\* The tools a caller may try to register.
Tools ==
    { Tool("calc", "Evaluate an expression", "evaluate"),
      Tool("calc", "Always 42", "constant"),
      Tool("bash", "Execute bash commands", "bash") }

ToolNames == {tool.name : tool \in Tools}

\* `name in self._tools`
HasTool(registry, name) == \E i \in 1..Len(registry) : registry[i].name = name

\* A registration that replaces the tool already registered under the name.
register_tool_Overwrites(registry, tool) ==
    [raised |-> FALSE,
     tools |-> IF \E i \in 1..Len(registry) : registry[i].name = tool.name
               THEN [i \in 1..Len(registry) |->
                        IF registry[i].name = tool.name THEN tool
                        ELSE registry[i]]
               ELSE Append(registry, tool)]

\* ToolRegistry.register_tool: the new _tools, or raised = TRUE (ValueError).
register_tool(registry, tool) ==
    IF HasTool(registry, tool.name)
    THEN [raised |-> TRUE, tools |-> registry]
    ELSE [raised |-> FALSE, tools |-> Append(registry, tool)]

\* ToolRegistry.get_tool: self._tools.get(name)
get_tool(registry, name) ==
    IF HasTool(registry, name)
    THEN Some(registry[CHOOSE i \in 1..Len(registry) : registry[i].name = name])
    ELSE None

\* The definitions listed from the last registered tool to the first.
get_all_tool_definitions_Reversed(registry) ==
    [i \in 1..Len(registry) |->
        [name |-> registry[Len(registry) + 1 - i].name,
         description |-> registry[Len(registry) + 1 - i].description,
         input_schema |-> registry[Len(registry) + 1 - i].input_schema]]

\* ToolRegistry.get_all_tool_definitions
get_all_tool_definitions(registry) ==
    [i \in 1..Len(registry) |-> get_definition(registry[i])]

\* ToolRegistry.__bool__
RegistryBool(registry) == registry # <<>>

(***************************************************************************)
(* utils.py                                                                *)
(***************************************************************************)
TextBlock(text) == [type |-> "text", text |-> text]

format_user_text_message(text) == <<TextBlock(text)>>

\* A ToolResult that is always flagged as an error.
format_tool_result_message_AlwaysError(tool_use_id, output, is_error) ==
    [type |-> "tool_result",
     tool_use_id |-> tool_use_id,
     content |-> <<TextBlock(output)>>,
     is_error |-> TRUE]

\* `output` is always a str at the two call sites of agent.py, so only the
\* isinstance(output, str) branch is taken.
format_tool_result_message(tool_use_id, output, is_error) ==
    [type |-> "tool_result",
     tool_use_id |-> tool_use_id,
     content |-> <<TextBlock(output)>>,
     is_error |-> is_error]

(***************************************************************************)
(* providers/anthropic.py: AnthropicProvider.chat_completion.              *)
(***************************************************************************)
DefaultMaxTokens == 4096

\* The request direction: every message whose content is a list of typed
\* blocks is passed on as it is; any other list content is re-wrapped with
\* its role.  (The str branches are not reachable from LLMAgent, which only
\* stores list content.)
IsBlockList(content) == \A i \in 1..Len(content) : "type" \in DOMAIN content[i]

AnthropicMessages(msgs) ==
    [i \in 1..Len(msgs) |->
        IF IsBlockList(msgs[i].content) THEN msgs[i]
        ELSE [role |-> msgs[i].role, content |-> msgs[i].content]]

\* api_params: "system", "tools" and "tool_choice" are only set when truthy.
ApiParams(msgs, tools, tool_choice, system) ==
    [model |-> "claude-3-sonnet-20240229",
     messages |-> AnthropicMessages(msgs),
     max_tokens |-> DefaultMaxTokens]
    @@ (IF system # None /\ system[1] # "" THEN [system |-> system[1]] ELSE <<>>)
    @@ (IF TruthyList(tools) THEN [tools |-> tools[1]] ELSE <<>>)
    @@ (IF tool_choice # None THEN [tool_choice |-> tool_choice[1]] ELSE <<>>)

\* Blocks of a backend response (content_block.model_dump()).
ToolUseBlock(id, name, input) ==
    [type |-> "tool_use", id |-> id, name |-> name, input |-> input]

\* text_response: the text of the text blocks, concatenated in block order.
RECURSIVE ConcatText(_)
ConcatText(content) ==
    IF content = <<>> THEN ""
    ELSE (IF Head(content).type = "text" THEN Head(content).text ELSE "")
         \o ConcatText(Tail(content))

\* The ToolCalls listed from the last tool_use block to the first.
ExtractToolCalls_Reversed(content) ==
    LET uses == SelectSeq(content, LAMBDA b : b.type = "tool_use") IN
    [i \in 1..Len(uses) |->
        [id |-> uses[Len(uses) + 1 - i].id,
         name |-> uses[Len(uses) + 1 - i].name,
         input |-> uses[Len(uses) + 1 - i].input, type |-> "tool_use"]]

\* tool_calls: one ToolCall per tool_use block, in block order.
RECURSIVE ExtractToolCalls(_)
ExtractToolCalls(content) ==
    IF content = <<>> THEN <<>>
    ELSE (IF Head(content).type = "tool_use"
          THEN <<[id |-> Head(content).id, name |-> Head(content).name,
                  input |-> Head(content).input, type |-> "tool_use"]>>
          ELSE <<>>)
         \o ExtractToolCalls(Tail(content))

\* The response direction: (text_response or None, tool_calls or None,
\* raw_assistant_message).
NormalizeResponse(content) ==
    LET text == ConcatText(content)
        calls == ExtractToolCalls(content)
    IN [text_response |-> IF text # "" THEN Some(text) ELSE None,
        tool_calls |-> IF calls # <<>> THEN Some(calls) ELSE None,
        raw_assistant_message |->
            Some([role |-> "assistant", content |-> content])]

(***************************************************************************)
(* What the backends answer.                                               *)
(***************************************************************************)
Expr(e) == [expr |-> e]

CallOk      == ToolUseBlock("t1", "calc", Expr("2+2"))
CallRaises  == ToolUseBlock("t1", "calc", Expr("1/0"))
CallUnknown == ToolUseBlock("t2", "foo", Expr("2+2"))
CallOk3     == ToolUseBlock("t3", "calc", Expr("2+2"))
CallNoId    == ToolUseBlock("", "calc", Expr("2+2"))
CallNoName  == ToolUseBlock("t1", "", Expr("2+2"))
CallOk2     == ToolUseBlock("t2", "calc", Expr("2+2"))
CallBash    == ToolUseBlock("t1", "bash", [command |-> "echo hi"])
CallBadArgs == ToolUseBlock("t2", "calc", [command |-> "echo hi"])

\* response.content of the Anthropic backend: the tool-free answers, and the
\* answers that request tools (ids unique within a response).
AnthropicContents ==
    { <<>>, <<TextBlock("4")>>, <<TextBlock("")>>,
      <<TextBlock("The answer "), TextBlock("is 4")>>,
      <<[type |-> "thinking", thinking |-> "hmm"], TextBlock("4")>> }
    \cup { <<TextBlock("Let me compute"), CallOk>>,
           <<CallRaises, CallUnknown, CallOk3>>,
           <<CallNoId, CallNoName, CallOk2>>,
           <<CallBash, TextBlock("and then"), CallBadArgs>> }

\* What another LLMProvider may return: any of the three parts may be None,
\* and a ToolCall dict may lack keys.
GenericResults ==
    { [text_response |-> Some("4"), tool_calls |-> None,
       raw_assistant_message |-> None],
      [text_response |-> None, tool_calls |-> Some(<<>>),
       raw_assistant_message |-> None],
      [text_response |-> Some("using a tool"),
       tool_calls |-> Some(<<[name |-> "calc", input |-> Expr("2+2")],
                             [id |-> "t2", name |-> "calc",
                              input |-> Expr("2+2")]>>),
       raw_assistant_message |->
           Some([role |-> "assistant",
                 content |-> <<TextBlock("using a tool")>>])],
      [text_response |-> None,
       tool_calls |-> Some(<<[id |-> "t1", input |-> Expr("2+2")]>>),
       raw_assistant_message |-> None],
      [text_response |-> None,
       tool_calls |-> Some(<<[id |-> "t1", name |-> "calc"]>>),
       raw_assistant_message |-> None] }

Providers == {"anthropic", "generic"}

\* The results self.llm.chat_completion may return.
ChatCompletionResults(provider) ==
    IF provider = "anthropic"
    THEN { NormalizeResponse(content) : content \in AnthropicContents }
    ELSE GenericResults

(***************************************************************************)
(* agent.py: LLMAgent.                                                     *)
(***************************************************************************)
DEFAULT_SYSTEM_PROMPT ==
    "You are a helpful AI assistant. You have access to tools. If you need to use a tool, explain what you're doing."

NoResponse == "No response from assistant."
MaxIterationsMessage ==
    "Agent reached maximum tool iterations. Returning last text response or error."

\* LLMAgent._add_message; `pytype` is the Python type of `content`.
_add_message(msgs, role, pytype, content) ==
    IF role \in {"user", "assistant"} /\ pytype = "str"
    THEN Append(msgs, [role |-> role, content |-> <<TextBlock(content)>>])
    ELSE IF role \in {"user", "assistant"} /\ pytype = "list"
    THEN Append(msgs, [role |-> role, content |-> content])
    ELSE IF pytype = "dict" /\ Get(content, "type") = Some("tool_result")
    THEN Append(msgs, [role |-> "user", content |-> <<content>>])
    ELSE Append(msgs, [role |-> role, content |-> content])

\* The texts of the error ToolResults.
MalformedToolCallText(tool_call) ==
    "Error: Malformed tool call from LLM: " \o ReprToolCall(tool_call)

ToolErrorText(tool_name, e) ==
    "Error executing tool '" \o tool_name \o "': " \o e

ToolNotFoundText(tool_name) == "Error: Tool '" \o tool_name \o "' not found."

\* Line 109: `if not tool_name or not tool_id`
IsMalformed(tool_call) ==
    ~TruthyStr(Get(tool_call, "name")) \/ ~TruthyStr(Get(tool_call, "id"))

\* What one pass of the for loop did: the ToolResults it appended, the
\* Tool.execute call it made (if any), and whether an exception left the loop.
Processed(results, execution, raised) ==
    [results |-> results, execution |-> execution, raised |-> raised]

ToolIdOf(tool_call) == Get(tool_call, "id")
ToolNameOf(tool_call) == Get(tool_call, "name")
\* tool_call.get("input", {})
ToolInputOf(tool_call) ==
    IF "input" \in DOMAIN tool_call THEN tool_call.input ELSE <<>>

\* A malformed call that leaves no ToolResult behind.
MalformedResult_Dropped(tool_call) == Processed(<<>>, None, FALSE)

\* A malformed call always answered under the placeholder id.
MalformedResult_AlwaysPlaceholder(tool_call) ==
    Processed(<<format_tool_result_message(
                  "unknown_id", MalformedToolCallText(tool_call), TRUE)>>,
              None, FALSE)

\* Lines 109-121.
MalformedResult(tool_call) ==
    Processed(<<format_tool_result_message(
                  IF TruthyStr(ToolIdOf(tool_call)) THEN ToolIdOf(tool_call)[1]
                  ELSE "unknown_id",
                  MalformedToolCallText(tool_call), TRUE)>>,
              None, FALSE)

\* A tool failure that is not caught.
ExecuteResult_Propagates(tool_call, tool) ==
    LET out == execute(tool, ToolInputOf(tool_call))
        execution == Some([tool |-> tool, kwargs |-> ToolInputOf(tool_call),
                           id |-> ToolIdOf(tool_call)[1], out |-> out])
    IN
    IF out.kind = "return"
    THEN Processed(<<format_tool_result_message(
                        ToolIdOf(tool_call)[1], Str(out.value), FALSE)>>,
                   execution, FALSE)
    ELSE Processed(<<>>, execution, TRUE)

\* Lines 128-147.
ExecuteResult(tool_call, tool) ==
    LET out == execute(tool, ToolInputOf(tool_call))
        execution == Some([tool |-> tool, kwargs |-> ToolInputOf(tool_call),
                           id |-> ToolIdOf(tool_call)[1], out |-> out])
    IN
    IF out.kind = "return"
    THEN Processed(<<format_tool_result_message(
                        ToolIdOf(tool_call)[1], Str(out.value), FALSE)>>,
                   execution, FALSE)
    ELSE Processed(<<format_tool_result_message(
                        ToolIdOf(tool_call)[1],
                        ToolErrorText(ToolNameOf(tool_call)[1], out.text),
                        TRUE)>>,
                   execution, FALSE)

\* An unknown tool reported without the error flag.
NotFoundResult_NotAnError(tool_call) ==
    Processed(<<format_tool_result_message(
                  ToolIdOf(tool_call)[1],
                  ToolNotFoundText(ToolNameOf(tool_call)[1]), FALSE)>>,
              None, FALSE)

\* Lines 148-153.
NotFoundResult(tool_call) ==
    Processed(<<format_tool_result_message(
                  ToolIdOf(tool_call)[1],
                  ToolNotFoundText(ToolNameOf(tool_call)[1]), TRUE)>>,
              None, FALSE)

\* Lines 104-153, one pass.
ProcessToolCall(tool_call, registry) ==
    IF IsMalformed(tool_call) THEN MalformedResult(tool_call)
    ELSE LET tool_to_execute == get_tool(registry, ToolNameOf(tool_call)[1]) IN
         IF tool_to_execute # None
         THEN ExecuteResult(tool_call, tool_to_execute[1])
         ELSE NotFoundResult(tool_call)

\* All ToolResults of a response packed into one user message.
AddToolResults_OneMessage(msgs, results) ==
    IF results = <<>> THEN msgs
    ELSE Append(msgs, [role |-> "user", content |-> results])

\* The ToolResults added from the last collected to the first.
AddToolResults_Reversed(msgs, results) ==
    msgs \o [j \in 1..Len(results) |->
                [role |-> "user", content |-> <<results[Len(results) + 1 - j]>>]]

\* `for res in tool_results_for_next_iteration: self._add_message("user", res)`
RECURSIVE AddToolResults(_, _)
AddToolResults(msgs, results) ==
    IF results = <<>> THEN msgs
    ELSE AddToolResults(_add_message(msgs, "user", "dict", Head(results)),
                        Tail(results))

\* The test written as `if tool_calls is None`.
HasToolCalls_IsNotNone(calls) == calls # None

\* Line 97: `if not tool_calls` decides whether the turn ends here.
HasToolCalls(calls) == TruthyList(calls)

\* Line 99: `text_response or "No response from assistant."`
FinalAnswer(text) == IF TruthyStr(text) THEN text[1] ELSE NoResponse

\* The loop written as do-while: its body runs at least once.
LoopContinues_DoWhile(iteration, max) == iteration = 0 \/ iteration < max

\* The loop test written with <= (one pass too many).
LoopContinues_OffByOne(iteration, max) == iteration <= max

\* The loop test of process_message.
LoopContinues(iteration, max) == iteration < max

\* Lines 69-77: the tool catalog and the tool-choice policy of a call.
ToolDefinitionsFor(registry) ==
    IF RegistryBool(registry) THEN Some(get_all_tool_definitions(registry))
    ELSE None

\* A policy that is "auto" whether or not there is a catalog.
ToolChoiceFor_AlwaysAuto(tool_definitions) == Some([type |-> "auto"])

ToolChoiceFor(tool_definitions) ==
    IF TruthyList(tool_definitions) THEN Some([type |-> "auto"]) ELSE None

Idle(api, kind, value) == [api |-> api, kind |-> kind, value |-> value]

UserInputs == {"what is 2+2"}

Init ==
    /\ llm \in Providers
    /\ system_prompt = DEFAULT_SYSTEM_PROMPT
    /\ max_tool_iterations \in 0..MaxIter
    /\ tool_registry = <<>>
    /\ messages = <<>>
    /\ pc = "idle"
    /\ current_iteration = 0
    /\ text_response = None
    /\ tool_calls = None
    /\ tool_index = 0
    /\ tool_results_for_next_iteration = <<>>
    /\ outcome = Idle("__init__", "returned", "")
    /\ llm_calls = 0
    /\ request = None
    /\ responses = <<>>
    /\ response_at = 0
    /\ executed = <<>>
    /\ register_arg = None
    /\ first_registered = [n \in ToolNames |-> None]
    /\ response_content = None

turn_locals == <<current_iteration, text_response, tool_calls, tool_index,
                 tool_results_for_next_iteration>>
config == <<llm, system_prompt, max_tool_iterations>>
turn_ghosts == <<llm_calls, request, responses, response_at, executed>>
registry_ghosts == <<register_arg, first_registered>>

\* LLMAgent.register_tool -> ToolRegistry.register_tool
RegisterTool(tool) ==
    /\ pc = "idle"
    /\ Len(messages) < MaxMessages
    /\ LET r == register_tool(tool_registry, tool) IN
        /\ tool_registry' = r.tools
        /\ outcome' = Idle("register_tool",
                           IF r.raised THEN "raised" ELSE "returned", "")
    /\ register_arg' = Some(tool)
    /\ first_registered' =
           IF first_registered[tool.name] = None
           THEN [first_registered EXCEPT ![tool.name] = Some(tool)]
           ELSE first_registered
    /\ UNCHANGED <<config, messages, pc, turn_locals, turn_ghosts>>
    /\ UNCHANGED response_content

\* A turn that starts from an empty history.
StartTurn_FreshHistory(user_input) ==
    /\ pc = "idle"
    /\ Len(messages) < MaxMessages
    /\ messages' = <<[role |-> "user", content |-> <<TextBlock(user_input)>>]>>
    /\ current_iteration' = 0
    /\ text_response' = None
    /\ tool_calls' = None
    /\ tool_index' = 0
    /\ tool_results_for_next_iteration' = <<>>
    /\ pc' = "loop"
    /\ outcome' = Idle("process_message", "running", "")
    /\ llm_calls' = 0
    /\ request' = None
    /\ responses' = <<>>
    /\ response_at' = 0
    /\ executed' = <<>>
    /\ UNCHANGED <<config, tool_registry, registry_ghosts>>
    /\ UNCHANGED response_content

\* process_message, line 63 and 65: the user message is appended.
StartTurn(user_input) ==
    /\ pc = "idle"
    /\ Len(messages) < MaxMessages
    /\ messages' = _add_message(messages, "user", "list",
                                format_user_text_message(user_input))
    /\ current_iteration' = 0
    /\ text_response' = None
    /\ tool_calls' = None
    /\ tool_index' = 0
    /\ tool_results_for_next_iteration' = <<>>
    /\ pc' = "loop"
    /\ outcome' = Idle("process_message", "running", "")
    /\ llm_calls' = 0
    /\ request' = None
    /\ responses' = <<>>
    /\ response_at' = 0
    /\ executed' = <<>>
    /\ UNCHANGED <<config, tool_registry, registry_ghosts>>
    /\ UNCHANGED response_content

\* A request that carries only the last message of the history.
RequestNow_LastMessageOnly ==
    LET tool_definitions == ToolDefinitionsFor(tool_registry) IN
    Some(ApiParams(<<messages[Len(messages)]>>, tool_definitions,
                   ToolChoiceFor(tool_definitions), Some(system_prompt)))

\* The api_params the adapter builds from the agent's state (lines 69-89).
RequestNow ==
    LET tool_definitions == ToolDefinitionsFor(tool_registry) IN
    Some(ApiParams(messages, tool_definitions, ToolChoiceFor(tool_definitions),
                   Some(system_prompt)))

\* A loop that keeps the raw assistant message only of a tool-free response.
ChatCompletionReturns_RawOnlyWhenDone(r) ==
    /\ pc = "loop"
    /\ current_iteration < max_tool_iterations
    /\ current_iteration' = current_iteration + 1
    /\ llm_calls' = llm_calls + 1
    /\ request' = RequestNow
    /\ responses' = Append(responses, r)
    /\ response_at' = Len(messages)
    /\ text_response' = r.text_response
    /\ tool_calls' = r.tool_calls
    /\ IF r.tool_calls = None \/ r.tool_calls[1] = <<>>
       THEN /\ messages' = IF r.raw_assistant_message # None
                           THEN Append(messages, r.raw_assistant_message[1])
                           ELSE messages
            /\ pc' = "idle"
            /\ outcome' = Idle("process_message", "returned",
                               IF r.text_response # None /\ r.text_response[1] # ""
                               THEN r.text_response[1] ELSE NoResponse)
            /\ UNCHANGED <<tool_index, tool_results_for_next_iteration>>
       ELSE /\ messages' = messages
            /\ pc' = "tools"
            /\ tool_index' = 1
            /\ tool_results_for_next_iteration' = <<>>
            /\ UNCHANGED outcome
    /\ UNCHANGED <<config, tool_registry, registry_ghosts, executed>>
    /\ UNCHANGED response_content

\* One pass of the loop up to the end of the iteration's own work on the
\* response (lines 66-102): the adapter answers with `r`.
ChatCompletionReturns(r) ==
    /\ pc = "loop"
    /\ LoopContinues(current_iteration, max_tool_iterations)
    /\ current_iteration' = current_iteration + 1
    /\ llm_calls' = llm_calls + 1
    /\ request' = RequestNow
    /\ responses' = Append(responses, r)
    /\ response_at' = Len(messages)
    /\ text_response' = r.text_response
    /\ tool_calls' = r.tool_calls
    /\ messages' = IF TruthyMsg(r.raw_assistant_message)
                   THEN Append(messages, r.raw_assistant_message[1])
                   ELSE messages
    /\ IF ~HasToolCalls(r.tool_calls)
       THEN /\ pc' = "idle"
            /\ outcome' = Idle("process_message", "returned",
                               FinalAnswer(r.text_response))
            /\ UNCHANGED <<tool_index, tool_results_for_next_iteration>>
       ELSE /\ pc' = "tools"
            /\ tool_index' = 1
            /\ tool_results_for_next_iteration' = <<>>
            /\ UNCHANGED outcome
    /\ UNCHANGED <<config, tool_registry, registry_ghosts, executed>>
    /\ UNCHANGED response_content

\* A failing call that empties the history.
ChatCompletionRaises_ClearsHistory ==
    /\ pc = "loop"
    /\ current_iteration < max_tool_iterations
    /\ current_iteration' = current_iteration + 1
    /\ llm_calls' = llm_calls + 1
    /\ request' = RequestNow
    /\ messages' = <<>>
    /\ pc' = "idle"
    /\ outcome' = Idle("process_message", "raised", "LLMProviderError")
    /\ UNCHANGED <<config, tool_registry, registry_ghosts, responses,
                   response_at, executed, text_response, tool_calls, tool_index,
                   tool_results_for_next_iteration>>
    /\ UNCHANGED response_content

\* A failing call that takes the turn's last message back out of the history.
ChatCompletionRaises_RollsBack ==
    /\ pc = "loop"
    /\ LoopContinues(current_iteration, max_tool_iterations)
    /\ current_iteration' = current_iteration + 1
    /\ llm_calls' = llm_calls + 1
    /\ request' = RequestNow
    /\ messages' = SubSeq(messages, 1, Len(messages) - 1)
    /\ pc' = "idle"
    /\ outcome' = Idle("process_message", "raised", "LLMProviderError")
    /\ UNCHANGED <<config, tool_registry, registry_ghosts, responses,
                   response_at, executed, text_response, tool_calls, tool_index,
                   tool_results_for_next_iteration>>
    /\ UNCHANGED response_content

\* The adapter raises (LLMProviderError): process_message has no handler.
ChatCompletionRaises ==
    /\ pc = "loop"
    /\ LoopContinues(current_iteration, max_tool_iterations)
    /\ current_iteration' = current_iteration + 1
    /\ llm_calls' = llm_calls + 1
    /\ request' = RequestNow
    /\ pc' = "idle"
    /\ outcome' = Idle("process_message", "raised", "LLMProviderError")
    /\ UNCHANGED <<config, tool_registry, registry_ghosts, messages, responses,
                   response_at, executed, text_response, tool_calls, tool_index,
                   tool_results_for_next_iteration>>
    /\ UNCHANGED response_content

\* One pass of `for tool_call in tool_calls` (lines 104-153).
RunToolCall ==
    /\ pc = "tools"
    /\ tool_index <= Len(tool_calls[1])
    /\ LET p == ProcessToolCall(tool_calls[1][tool_index], tool_registry) IN
        /\ tool_results_for_next_iteration' =
               tool_results_for_next_iteration \o p.results
        /\ executed' = executed \o
               [i \in 1..Len(p.execution) |->
                   [iteration |-> current_iteration, index |-> tool_index]
                   @@ p.execution[i]]
        /\ IF p.raised
           THEN /\ pc' = "idle"
                /\ outcome' = Idle("process_message", "raised", "Exception")
           ELSE UNCHANGED <<pc, outcome>>
    /\ tool_index' = tool_index + 1
    /\ UNCHANGED <<config, tool_registry, registry_ghosts, messages,
                   current_iteration, text_response, tool_calls, llm_calls,
                   request, responses, response_at>>
    /\ UNCHANGED response_content

\* A loop that drops the results of the last allowed iteration.
AppendToolResults_NotAtCap ==
    /\ pc = "tools"
    /\ tool_index > Len(tool_calls[1])
    /\ messages' = IF current_iteration < max_tool_iterations
                   THEN AddToolResults(messages, tool_results_for_next_iteration)
                   ELSE messages
    /\ pc' = "loop"
    /\ UNCHANGED <<config, tool_registry, registry_ghosts, turn_locals, outcome,
                   turn_ghosts>>
    /\ UNCHANGED response_content

\* The end of the for loop: the results are added to the history (lines
\* 158-161) and the loop goes back to its test.
AppendToolResults ==
    /\ pc = "tools"
    /\ tool_index > Len(tool_calls[1])
    /\ messages' = AddToolResults(messages, tool_results_for_next_iteration)
    /\ pc' = "loop"
    /\ UNCHANGED <<config, tool_registry, registry_ghosts, turn_locals, outcome,
                   turn_ghosts>>
    /\ UNCHANGED response_content

\* The cap exit returning the last text response instead of the fixed message.
MaxIterationsReached_LastText ==
    /\ pc = "loop"
    /\ ~LoopContinues(current_iteration, max_tool_iterations)
    /\ pc' = "idle"
    /\ outcome' = Idle("process_message", "returned",
                       IF TruthyStr(text_response) THEN text_response[1]
                       ELSE MaxIterationsMessage)
    /\ UNCHANGED <<config, tool_registry, registry_ghosts, messages, turn_locals,
                   turn_ghosts>>
    /\ UNCHANGED response_content

\* The loop test fails: line 170.
MaxIterationsReached ==
    /\ pc = "loop"
    /\ ~LoopContinues(current_iteration, max_tool_iterations)
    /\ pc' = "idle"
    /\ outcome' = Idle("process_message", "returned", MaxIterationsMessage)
    /\ UNCHANGED <<config, tool_registry, registry_ghosts, messages, turn_locals,
                   turn_ghosts>>
    /\ UNCHANGED response_content

Next ==
    \/ \E tool \in Tools : RegisterTool(tool)
    \/ \E user_input \in UserInputs : StartTurn(user_input)
    \/ \E r \in ChatCompletionResults(llm) : ChatCompletionReturns(r)
    \/ ChatCompletionRaises
    \/ RunToolCall
    \/ AppendToolResults
    \/ MaxIterationsReached

Spec == Init /\ [][Next]_vars

(***************************************************************************)
(* The turn under the assumption that every adapter call and every tool    *)
(* execution returns: process_message runs synchronously to its end, so    *)
(* its steps are weakly fair; when the caller starts a turn or registers a *)
(* tool is up to the caller.                                               *)
(***************************************************************************)
TurnStep ==
    \/ \E r \in ChatCompletionResults(llm) : ChatCompletionReturns(r)
    \/ RunToolCall
    \/ AppendToolResults
    \/ MaxIterationsReached

NextReturning ==
    \/ \E tool \in Tools : RegisterTool(tool)
    \/ \E user_input \in UserInputs : StartTurn(user_input)
    \/ TurnStep

LiveSpec == Init /\ [][NextReturning]_vars /\ WF_vars(TurnStep)

(***************************************************************************)
(* The agent built with any max_tool_iterations the constructor accepts,   *)
(* a negative one included: __init__ stores the argument as it is.         *)
(***************************************************************************)
CapValues == (0 - 1)..MaxIter

AnyCapInit ==
    /\ llm \in Providers
    /\ system_prompt = DEFAULT_SYSTEM_PROMPT
    /\ max_tool_iterations \in CapValues
    /\ tool_registry = <<>>
    /\ messages = <<>>
    /\ pc = "idle"
    /\ current_iteration = 0
    /\ text_response = None
    /\ tool_calls = None
    /\ tool_index = 0
    /\ tool_results_for_next_iteration = <<>>
    /\ outcome = Idle("__init__", "returned", "")
    /\ llm_calls = 0
    /\ request = None
    /\ responses = <<>>
    /\ response_at = 0
    /\ executed = <<>>
    /\ register_arg = None
    /\ first_registered = [n \in ToolNames |-> None]
    /\ response_content = None

AnyCapSpec == AnyCapInit /\ [][Next]_vars

(***************************************************************************)
(* AnthropicProvider.chat_completion on its own: the backend has answered  *)
(* with response.content (any list of at most MaxBlocks blocks) and the    *)
(* adapter normalises it into the triple it returns (lines 117-142).       *)
(***************************************************************************)
MaxBlocks == 3

ResponseBlocks ==
    { TextBlock("a"), TextBlock(""), TextBlock("b"),
      [type |-> "thinking", thinking |-> "hmm"], CallOk2, CallBash }

ResponseContents == UNION { [1..n -> ResponseBlocks] : n \in 0..MaxBlocks }

AdapterInit ==
    /\ llm = "anthropic"
    /\ system_prompt = DEFAULT_SYSTEM_PROMPT
    /\ max_tool_iterations = 1
    /\ tool_registry = <<>>
    /\ messages = <<>>
    /\ pc = "adapter"
    /\ current_iteration = 0
    /\ text_response = None
    /\ tool_calls = None
    /\ tool_index = 0
    /\ tool_results_for_next_iteration = <<>>
    /\ outcome = Idle("chat_completion", "running", "")
    /\ llm_calls = 0
    /\ request = None
    /\ responses = <<>>
    /\ response_at = 0
    /\ executed = <<>>
    /\ register_arg = None
    /\ first_registered = [n \in ToolNames |-> None]
    /\ \E content \in ResponseContents : response_content = Some(content)

\* Lines 117-142: the triple is built from response.content and returned.
AdapterReturns ==
    /\ pc = "adapter"
    /\ responses' = Append(responses, NormalizeResponse(response_content[1]))
    /\ pc' = "idle"
    /\ outcome' = Idle("chat_completion", "returned", "")
    /\ UNCHANGED <<config, tool_registry, registry_ghosts, messages, turn_locals,
                   llm_calls, request, response_at, executed, response_content>>

AdapterNext == AdapterReturns

AdapterSpec == AdapterInit /\ [][AdapterNext]_vars

(***************************************************************************)
(* The registry on its own: a caller registers tools and reads the         *)
(* registry back through agent.tool_registry.                              *)
(***************************************************************************)
QueriedNames == ToolNames \cup {"foo"}

\* ToolRegistry.get_tool called by the caller.
GetTool(name) ==
    /\ pc = "idle"
    /\ outcome' = Idle("get_tool", "returned",
                       [name |-> name, result |-> get_tool(tool_registry, name)])
    /\ UNCHANGED <<config, tool_registry, registry_ghosts, messages, pc,
                   turn_locals, turn_ghosts, response_content>>

\* ToolRegistry.get_all_tool_definitions called by the caller.
GetAllToolDefinitions ==
    /\ pc = "idle"
    /\ outcome' = Idle("get_all_tool_definitions", "returned",
                       get_all_tool_definitions(tool_registry))
    /\ UNCHANGED <<config, tool_registry, registry_ghosts, messages, pc,
                   turn_locals, turn_ghosts, response_content>>

RegistryNext ==
    \/ \E tool \in Tools : RegisterTool(tool)
    \/ \E name \in QueriedNames : GetTool(name)
    \/ GetAllToolDefinitions

RegistrySpec == Init /\ [][RegistryNext]_vars

(***************************************************************************)
(* Helpers of the properties.                                              *)
(***************************************************************************)
Last(seq) == seq[Len(seq)]

\* The turn is over and process_message was the last API call.
TurnOver == pc = "idle" /\ outcome.api = "process_message"
TurnReturned == TurnOver /\ outcome.kind = "returned"

RequestsTools(r) == r.tool_calls # None /\ r.tool_calls[1] # <<>>

(***************************************************************************)
(* C1. In every turn the iteration counter never exceeds                   *)
(* max_tool_iterations, and chat_completion is called at most              *)
(* max_tool_iterations times in that turn, whatever the adapter answers    *)
(* and whatever the tools do.                                              *)
(***************************************************************************)
C1_IterationCap ==
    /\ current_iteration <= max_tool_iterations
    /\ llm_calls <= max_tool_iterations

\* The cap is hit: the last allowed response still requests tools.
C1_Witness ==
    /\ max_tool_iterations = MaxIter
    /\ llm_calls = max_tool_iterations
    /\ pc = "tools"

(***************************************************************************)
(* C2. Assuming every adapter call and every tool execution returns, a     *)
(* started turn always ends, and it ends in one of two ways: Done, after a *)
(* tool-free response, or MaxIterationsReached, after max_tool_iterations  *)
(* responses that all requested tools, returning the fixed message         *)
(* whatever text the last response carried.                                *)
(***************************************************************************)
EndedDone ==
    /\ responses # <<>>
    /\ ~RequestsTools(Last(responses))
    /\ \A i \in 1..(Len(responses) - 1) : RequestsTools(responses[i])

EndedAtCap ==
    /\ Len(responses) = max_tool_iterations
    /\ \A i \in 1..Len(responses) : RequestsTools(responses[i])

C2_TurnTerminates ==
    /\ [](TurnOver =>
            /\ outcome.kind = "returned"
            /\ EndedDone \/ EndedAtCap
            /\ EndedAtCap => outcome.value = MaxIterationsMessage)
    /\ (pc # "idle") ~> (pc = "idle")

\* A turn ended at the cap although its last response carried text.
C2_Witness ==
    /\ TurnOver
    /\ max_tool_iterations >= 1
    /\ EndedAtCap
    /\ Last(responses).text_response # None
    /\ outcome.value = MaxIterationsMessage

(***************************************************************************)
(* The tool call the for loop is about to process, described from the      *)
(* call and the registry alone.                                            *)
(***************************************************************************)
AtToolCall == pc = "tools" /\ tool_index <= Len(tool_calls[1])
CurrentCall == tool_calls[1][tool_index]

HasField(c, k) == k \in DOMAIN c /\ c[k] # ""
WellFormed(c) == HasField(c, "name") /\ HasField(c, "id")
Registered(c) ==
    \E i \in 1..Len(tool_registry) : tool_registry[i].name = c.name
RegisteredTool(c) ==
    tool_registry[CHOOSE i \in 1..Len(tool_registry) :
                      tool_registry[i].name = c.name]
\* What running the call's tool does.
RunOf(c) ==
    CallImplementation(RegisteredTool(c).implementation,
                       IF "input" \in DOMAIN c THEN c.input ELSE <<>>)

\* The id a call's ToolResult must carry.
ExpectedId(c) == IF HasField(c, "id") THEN c.id ELSE "unknown_id"

\* The step goes on with the next call of the same response and appends
\* exactly one ToolResult to the results collected so far.
OneResultAppended ==
    /\ pc' = "tools"
    /\ tool_index' = tool_index + 1
    /\ tool_calls' = tool_calls
    /\ outcome' = outcome
    /\ messages' = messages
    /\ Len(tool_results_for_next_iteration') =
           Len(tool_results_for_next_iteration) + 1
    /\ SubSeq(tool_results_for_next_iteration', 1,
              Len(tool_results_for_next_iteration)) =
           tool_results_for_next_iteration
NewResult == Last(tool_results_for_next_iteration')
ResultText(res) == res.content[1].text

\* The messages appended since the last response's assistant message.
AfterAssistant ==
    LET raw == Last(responses).raw_assistant_message
        first == response_at + (IF raw # None THEN 1 ELSE 0)
    IN SubSeq(messages, first + 1, Len(messages))

IsToolResultMessage(msg) ==
    /\ msg.role = "user"
    /\ Len(msg.content) = 1
    /\ msg.content[1].type = "tool_result"

(***************************************************************************)
(* C3. Round-trip pairing.  Once the tool calls of a response have been    *)
(* processed (the loop is back at its test, or the turn is over), the      *)
(* messages appended after that response's assistant message are tool      *)
(* results, one per call: every call with an id has exactly one ToolResult *)
(* with that tool_use_id, and every ToolResult carries the id of a call of *)
(* that response or the placeholder of a call without id.                  *)
(***************************************************************************)
C3_RoundTripPairing ==
    (pc # "tools" /\ responses # <<>> /\ RequestsTools(Last(responses))) =>
        LET calls == Last(responses).tool_calls[1]
            raw == Last(responses).raw_assistant_message
            tail == AfterAssistant
            ids == [j \in 1..Len(tail) |-> tail[j].content[1].tool_use_id]
        IN /\ raw # None => messages[response_at + 1] = raw[1]
           /\ \A j \in 1..Len(tail) : IsToolResultMessage(tail[j])
           /\ Len(tail) = Len(calls)
           /\ \A i \in 1..Len(calls) :
                HasField(calls[i], "id") =>
                    Cardinality({j \in 1..Len(tail) : ids[j] = calls[i].id}) = 1
           /\ \A j \in 1..Len(tail) :
                \/ \E i \in 1..Len(calls) :
                      HasField(calls[i], "id") /\ ids[j] = calls[i].id
                \/ /\ ids[j] = "unknown_id"
                   /\ \E i \in 1..Len(calls) : ~HasField(calls[i], "id")

\* A response with three calls, one without id, has been answered and the
\* loop is about to call the adapter again.
C3_Witness ==
    /\ pc = "loop"
    /\ current_iteration < max_tool_iterations
    /\ responses # <<>>
    /\ RequestsTools(Last(responses))
    /\ Len(Last(responses).tool_calls[1]) = 3
    /\ [j \in 1..Len(AfterAssistant) |->
           AfterAssistant[j].content[1].tool_use_id] = <<"unknown_id", "t1", "t2">>

(***************************************************************************)
(* C4. When the tool of a well-formed call to a registered tool raises,    *)
(* nothing is propagated out of process_message: the step appends a        *)
(* ToolResult for that call's id with is_error = TRUE whose text contains  *)
(* the tool name and the failure text, and the for loop goes on with the   *)
(* next call of the response.  The only exception a turn ends with is the  *)
(* adapter's.                                                              *)
(***************************************************************************)
ToolRaisesNow ==
    /\ AtToolCall
    /\ WellFormed(CurrentCall)
    /\ Registered(CurrentCall)
    /\ RunOf(CurrentCall).kind = "raise"

C4_ToolFailureRecovered ==
    /\ [][ToolRaisesNow =>
            /\ OneResultAppended
            /\ NewResult.tool_use_id = CurrentCall.id
            /\ NewResult.is_error = TRUE
            /\ Contains(ResultText(NewResult), CurrentCall.name)
            /\ Contains(ResultText(NewResult), RunOf(CurrentCall).text)
            /\ Len(executed') = Len(executed) + 1]_vars
    /\ [](outcome.kind = "raised" /\ outcome.api = "process_message"
            => outcome.value = "LLMProviderError")

\* A tool raised, a later call of the same response was still executed, and
\* the loop went on to the next adapter call.
C4_Witness ==
    /\ llm_calls >= 2
    /\ \E i, j \in 1..Len(executed) :
         /\ executed[i].iteration = 1
         /\ executed[j].iteration = 1
         /\ executed[i].index < executed[j].index
         /\ executed[i].out.kind = "raise"
         /\ executed[j].out.kind = "return"
    /\ \E k \in 1..Len(messages) :
         /\ IsToolResultMessage(messages[k])
         /\ messages[k].content[1].is_error
         /\ ResultText(messages[k].content[1]) =
                "Error executing tool 'calc': division by zero"

(***************************************************************************)
(* C5. A well-formed call naming a tool that is not in the registry        *)
(* executes no tool: the step appends a ToolResult for the call's id with  *)
(* is_error = TRUE whose text mentions "Tool '<name>' not found", nothing  *)
(* is raised, and the for loop goes on with the next call.                 *)
(***************************************************************************)
ToolMissingNow ==
    /\ AtToolCall
    /\ WellFormed(CurrentCall)
    /\ ~Registered(CurrentCall)

C5_UnknownToolRecovered ==
    [][ToolMissingNow =>
         /\ OneResultAppended
         /\ executed' = executed
         /\ NewResult.tool_use_id = CurrentCall.id
         /\ NewResult.is_error = TRUE
         /\ Contains(ResultText(NewResult),
                     "Tool '" \o CurrentCall.name \o "' not found")]_vars

\* "foo" was asked for while "calc" was registered; the error went into the
\* history, the next call of the response ran and the adapter was called again.
C5_Witness ==
    /\ llm_calls >= 2
    /\ tool_registry # <<>>
    /\ \E k \in 1..Len(messages) :
         /\ IsToolResultMessage(messages[k])
         /\ messages[k].content[1].is_error
         /\ messages[k].content[1].tool_use_id = "t2"
         /\ ResultText(messages[k].content[1]) = "Error: Tool 'foo' not found."
    /\ \E j \in 1..Len(executed) : executed[j].id = "t3"

(***************************************************************************)
(* C6. A malformed call (name or id missing or empty) reaches neither the  *)
(* registry nor a tool: the step appends an error ToolResult whose         *)
(* tool_use_id is the call's id when it has one and "unknown_id"           *)
(* otherwise, and the for loop goes on with the next call.                 *)
(***************************************************************************)
MalformedNow == AtToolCall /\ ~WellFormed(CurrentCall)

C6_MalformedCallRecovered ==
    [][MalformedNow =>
         /\ OneResultAppended
         /\ executed' = executed
         /\ NewResult.tool_use_id = ExpectedId(CurrentCall)
         /\ NewResult.is_error = TRUE]_vars

\* A call without id and a call without name were answered, in order, and the
\* well-formed call that followed them was executed.
C6_Witness ==
    /\ pc = "tools"
    /\ tool_index = 4
    /\ Len(tool_results_for_next_iteration) = 3
    /\ tool_results_for_next_iteration[1].tool_use_id = "unknown_id"
    /\ tool_results_for_next_iteration[1].is_error
    /\ tool_results_for_next_iteration[2].tool_use_id = "t1"
    /\ tool_results_for_next_iteration[2].is_error
    /\ tool_results_for_next_iteration[3].tool_use_id = "t2"
    /\ ~tool_results_for_next_iteration[3].is_error
    /\ Len(executed) = 1
    /\ executed[1].index = 3

(***************************************************************************)
(* C7. Registering a tool whose name is already registered fails with an   *)
(* error and leaves the registry unchanged; any other registration appends *)
(* the tool.  So the registry always maps each name to the first tool      *)
(* registered under it, and its names are unique.                          *)
(***************************************************************************)
RegistryNames == {tool_registry[i].name : i \in 1..Len(tool_registry)}

C7_DuplicateRejected ==
    /\ [](/\ Cardinality(RegistryNames) = Len(tool_registry)
          /\ \A n \in ToolNames :
               /\ n \in RegistryNames <=> first_registered[n] # None
               /\ \A i \in 1..Len(tool_registry) :
                    tool_registry[i].name = n =>
                        first_registered[n] = <<tool_registry[i]>>)
    /\ [][(pc = "idle" /\ outcome'.api = "register_tool") =>
            IF register_arg'[1].name \in RegistryNames
            THEN outcome'.kind = "raised" /\ tool_registry' = tool_registry
            ELSE /\ outcome'.kind = "returned"
                 /\ tool_registry' = Append(tool_registry, register_arg'[1])]_vars

\* A second, different tool named like a registered one has just been refused.
C7_Witness ==
    /\ outcome.api = "register_tool"
    /\ outcome.kind = "raised"
    /\ Len(tool_registry) = 2
    /\ first_registered[register_arg[1].name] # register_arg

(***************************************************************************)
(* C8. When an adapter call fails, the error ends the turn there: the      *)
(* failing step changes neither the history nor what was executed, no      *)
(* further adapter call or tool execution follows in that turn, and the    *)
(* history is the one that was passed to the failing call.                 *)
(***************************************************************************)
C8_ProviderErrorIsFatal ==
    /\ [][(pc = "loop" /\ outcome'.kind = "raised") =>
            /\ pc' = "idle"
            /\ outcome'.api = "process_message"
            /\ messages' = messages
            /\ executed' = executed
            /\ responses' = responses
            /\ llm_calls' = llm_calls + 1]_vars
    /\ [](outcome.kind = "raised" /\ outcome.api = "process_message" =>
            /\ pc = "idle"
            /\ request[1].messages = messages
            /\ llm_calls = Len(responses) + 1
            /\ \A i \in 1..Len(responses) : RequestsTools(responses[i]))

\* The second adapter call of a turn failed after a tool had been executed.
C8_Witness ==
    /\ outcome.kind = "raised"
    /\ outcome.api = "process_message"
    /\ llm_calls = 2
    /\ executed # <<>>
    /\ Len(messages) > 2

(***************************************************************************)
(* C9. A response without tool calls ends the turn at once in Done: it is  *)
(* the last response of the turn, no further adapter call is made and no   *)
(* tool is executed after it, and process_message returns its text, or     *)
(* "No response from assistant." when it has none.  In particular a        *)
(* tool-free first response means exactly one adapter call.                *)
(***************************************************************************)
TextOrFallback(r) ==
    IF r.text_response # None /\ r.text_response[1] # ""
    THEN r.text_response[1] ELSE "No response from assistant."

C9_ToolFreeResponseEndsTurn ==
    \A i \in 1..Len(responses) :
        ~RequestsTools(responses[i]) =>
            /\ i = Len(responses)
            /\ llm_calls = i
            /\ pc = "idle"
            /\ \A j \in 1..Len(executed) : executed[j].iteration < i
            /\ outcome.api = "process_message" =>
                   /\ outcome.kind = "returned"
                   /\ outcome.value = TextOrFallback(responses[i])

\* No tool registered, one adapter call without a tool catalog, a response
\* with no text: the fallback is returned.
C9_Witness ==
    /\ TurnReturned
    /\ tool_registry = <<>>
    /\ llm_calls = 1
    /\ "tools" \notin DOMAIN request[1]
    /\ Len(responses) = 1
    /\ responses[1].text_response = None
    /\ outcome.value = "No response from assistant."

(***************************************************************************)
(* C10. A turn that ends in Done after n responses that requested tools    *)
(* and one tool-free response has made exactly n + 1 adapter calls, has    *)
(* executed every well-formed call to a registered tool exactly once, in   *)
(* order, and returns the text of response n + 1 (or the fallback when it  *)
(* has none).  For every tool run that returned, the history holds a       *)
(* user-role ToolResult with the call's id, one Text block with the        *)
(* stringified output, and is_error = FALSE.                               *)
(***************************************************************************)
Runnable(c) == WellFormed(c) /\ Registered(c)

RECURSIVE ExpectedRuns(_)
ExpectedRuns(n) ==
    IF n = 0 THEN <<>>
    ELSE LET calls == IF RequestsTools(responses[n])
                      THEN responses[n].tool_calls[1] ELSE <<>>
             runs == SelectSeq([k \in 1..Len(calls) |->
                                   [iteration |-> n, index |-> k,
                                    call |-> calls[k]]],
                               LAMBDA x : Runnable(x.call))
         IN ExpectedRuns(n - 1) \o
            [k \in 1..Len(runs) |->
                [iteration |-> n, index |-> runs[k].index,
                 id |-> runs[k].call.id, name |-> runs[k].call.name]]

C10_DoneAfterTools ==
    (TurnReturned /\ EndedDone) =>
        /\ llm_calls = Len(responses)
        /\ outcome.value = TextOrFallback(Last(responses))
        /\ [j \in 1..Len(executed) |->
               [iteration |-> executed[j].iteration, index |-> executed[j].index,
                id |-> executed[j].id, name |-> executed[j].tool.name]]
           = ExpectedRuns(Len(responses))
        /\ \A j \in 1..Len(executed) :
             executed[j].out.kind = "return" =>
                \E k \in 1..Len(messages) :
                    messages[k] =
                        [role |-> "user",
                         content |-> <<[type |-> "tool_result",
                                        tool_use_id |-> executed[j].id,
                                        content |->
                                            <<[type |-> "text",
                                               text |-> Str(executed[j].out.value)]>>,
                                        is_error |-> FALSE]>>]

\* calc is registered and returns the number 4 for call t1; the second
\* response is the text "4": two adapter calls, and the ToolResult of the
\* scenario is in the history.
C10_Witness ==
    /\ TurnReturned
    /\ llm_calls = 2
    /\ Len(responses) = 2
    /\ responses[1].text_response = <<"Let me compute">>
    /\ outcome.value = "4"
    /\ Len(executed) = 1
    /\ executed[1].out = [kind |-> "return", value |-> [t |-> "int", v |-> 4]]
    /\ Len(messages) = 4
    /\ messages[3] =
           [role |-> "user",
            content |-> <<[type |-> "tool_result", tool_use_id |-> "t1",
                           content |-> <<[type |-> "text", text |-> "4"]>>,
                           is_error |-> FALSE]>>]

(***************************************************************************)
(* C11. Response normalisation.  For every list of response content        *)
(* blocks the adapter returns (a) the texts of the text blocks joined in   *)
(* block order, or None when the joined text is empty; (b) one ToolCall    *)
(* per tool_use block, in block order, with the block's id, name and       *)
(* input, or None when there is no tool_use block; (c) an assistant        *)
(* message whose content is the whole list of blocks in its order.         *)
(***************************************************************************)
TextsOf(content) == SelectSeq(content, LAMBDA b : b.type = "text")
ToolUsesOf(content) == SelectSeq(content, LAMBDA b : b.type = "tool_use")

JoinTexts(content) ==
    LET texts == TextsOf(content)
        Joined[i \in 0..Len(texts)] ==
            IF i = 0 THEN "" ELSE Joined[i - 1] \o texts[i].text
    IN Joined[Len(texts)]

AdapterReturned == outcome = Idle("chat_completion", "returned", "")

C11_ResponseNormalized ==
    AdapterReturned =>
        LET content == response_content[1]
            r == Last(responses)
            text == JoinTexts(content)
            uses == ToolUsesOf(content)
        IN /\ Len(responses) = 1
           /\ r.text_response = (IF text = "" THEN None ELSE Some(text))
           /\ IF uses = <<>> THEN r.tool_calls = None
              ELSE /\ r.tool_calls # None
                   /\ Len(r.tool_calls[1]) = Len(uses)
                   /\ \A i \in 1..Len(uses) :
                        /\ r.tool_calls[1][i].id = uses[i].id
                        /\ r.tool_calls[1][i].name = uses[i].name
                        /\ r.tool_calls[1][i].input = uses[i].input
           /\ r.raw_assistant_message =
                  Some([role |-> "assistant", content |-> content])

\* Two tool_use blocks around a text block: the text alone is the text
\* response and the calls come out in block order.
C11_Witness ==
    /\ AdapterReturned
    /\ response_content = Some(<<CallOk2, TextBlock("a"), CallBash>>)
    /\ Last(responses).text_response = Some("a")
    /\ [i \in 1..2 |-> Last(responses).tool_calls[1][i].id] = <<"t2", "t1">>
    /\ Len(Last(responses).raw_assistant_message[1].content) = 3

(***************************************************************************)
(* C12. Registry reads are pure and ordered.  get_tool and                 *)
(* get_all_tool_definitions leave the registry as it is; get_tool returns  *)
(* the tool registered under the name, or None; the list returned by       *)
(* get_all_tool_definitions is empty at first, grows at its end by the     *)
(* definition of every tool registered under a new name, and is left as it *)
(* is by a registration that fails on a duplicate name.                    *)
(***************************************************************************)
DefinitionOf(tool) ==
    [name |-> tool.name, description |-> tool.description,
     input_schema |-> tool.input_schema]

Listing == get_all_tool_definitions(tool_registry)

ReadStep == outcome'.api \in {"get_tool", "get_all_tool_definitions"}

C12_RegistryReads ==
    /\ Listing = <<>>
    /\ [][outcome'.api = "register_tool" =>
            Listing' =
                IF \E i \in 1..Len(Listing) : Listing[i].name = register_arg'[1].name
                THEN Listing
                ELSE Append(Listing, DefinitionOf(register_arg'[1]))]_vars
    /\ [][ReadStep =>
            /\ tool_registry' = tool_registry
            /\ first_registered' = first_registered
            /\ outcome'.kind = "returned"
            /\ outcome'.api = "get_all_tool_definitions" =>
                   outcome'.value = Listing
            /\ outcome'.api = "get_tool" =>
                   outcome'.value.result =
                       IF outcome'.value.name \in ToolNames
                       THEN first_registered[outcome'.value.name]
                       ELSE None]_vars

\* bash, then calc were registered, a second calc was refused, and the
\* definitions are read back in that order.
C12_Witness ==
    /\ outcome.api = "get_all_tool_definitions"
    /\ [i \in 1..Len(outcome.value) |-> outcome.value[i].name] = <<"bash", "calc">>
    /\ register_arg[1].name = "calc"
    /\ first_registered["calc"] # register_arg
    /\ outcome.value[2].description = first_registered["calc"][1].description

(***************************************************************************)
(* C13. Whenever the adapter returns a raw assistant message, the same     *)
(* step appends it, unmodified, as the next message of the history,        *)
(* whether or not the response has tool calls; at that point no tool of    *)
(* the response has been executed and no ToolResult of it collected, and   *)
(* until the for loop is over the assistant message stays the last one.    *)
(* Without a raw assistant message the step leaves the history as it is.   *)
(***************************************************************************)
AdapterAnswered == Len(responses') = Len(responses) + 1

C13_RawAssistantAppendedFirst ==
    /\ [][AdapterAnswered =>
            LET raw == Last(responses').raw_assistant_message IN
            /\ messages' = IF raw # None THEN Append(messages, raw[1])
                           ELSE messages
            /\ executed' = executed
            /\ \A j \in 1..Len(executed') :
                  executed'[j].iteration < current_iteration'
            /\ pc' = "tools" => tool_results_for_next_iteration' = <<>>]_vars
    /\ [](pc = "tools" =>
            LET raw == Last(responses).raw_assistant_message IN
            /\ Len(messages) = response_at + (IF raw # None THEN 1 ELSE 0)
            /\ raw # None => Last(messages) = raw[1])

\* A tool of the response has run and its result is collected; the
\* assistant message with the tool_use block is the last message.
C13_Witness ==
    /\ pc = "tools"
    /\ Len(executed) = 1
    /\ executed[1].iteration = current_iteration
    /\ Len(tool_results_for_next_iteration) = 1
    /\ Last(responses).raw_assistant_message # None
    /\ Last(messages).role = "assistant"
    /\ \E i \in 1..Len(Last(messages).content) :
          Last(messages).content[i].type = "tool_use"
    /\ Len(messages) = 2

(***************************************************************************)
(* C14. The tools of one response are executed one at a time in the order  *)
(* of the response's calls.  The ToolResults are collected, one per        *)
(* processed call, while the history stays as it is; they are appended to  *)
(* the history in one go, in the order of the calls, only after the last   *)
(* call has been processed, and the adapter is not called again before     *)
(* that.                                                                   *)
(***************************************************************************)
CallsOf(n) == responses[n].tool_calls[1]

C14_ToolsInOrderThenResults ==
    /\ [](/\ \A i, j \in 1..Len(executed) :
                i < j =>
                    \/ executed[i].iteration < executed[j].iteration
                    \/ /\ executed[i].iteration = executed[j].iteration
                       /\ executed[i].index < executed[j].index
          /\ \A j \in 1..Len(executed) :
                /\ executed[j].iteration \in 1..Len(responses)
                /\ executed[j].index \in 1..Len(CallsOf(executed[j].iteration))
                /\ executed[j].id =
                       CallsOf(executed[j].iteration)[executed[j].index].id
          /\ pc = "tools" =>
                /\ Len(tool_results_for_next_iteration) = tool_index - 1
                /\ \A k \in 1..Len(tool_results_for_next_iteration) :
                      tool_results_for_next_iteration[k].tool_use_id =
                          ExpectedId(CallsOf(Len(responses))[k]))
    /\ [][pc = "tools" =>
            /\ llm_calls' = llm_calls
            /\ responses' = responses
            /\ (tool_index <= Len(CallsOf(Len(responses)))) =>
                   /\ messages' = messages
                   /\ tool_index' = tool_index + 1
                   /\ Len(executed') <= Len(executed) + 1
            /\ (tool_index > Len(CallsOf(Len(responses)))) =>
                   /\ pc' = "loop"
                   /\ executed' = executed
                   /\ messages' = messages \o
                          [k \in 1..Len(tool_results_for_next_iteration) |->
                              [role |-> "user",
                               content |->
                                   <<tool_results_for_next_iteration[k]>>]]]_vars
    /\ [][(llm_calls' = llm_calls + 1 /\ responses # <<>>) =>
            /\ pc = "loop"
            /\ tool_index = Len(CallsOf(Len(responses))) + 1
            /\ Len(AfterAssistant) = Len(CallsOf(Len(responses)))]_vars

\* Three calls were answered in order (the first and the third ran a tool)
\* and the second adapter call received the three results after the
\* assistant message.
C14_Witness ==
    /\ llm_calls = 2
    /\ Len(responses) = 2
    /\ Len(CallsOf(1)) = 3
    /\ [j \in 1..Len(executed) |-> executed[j].index] = <<1, 3>>
    /\ Len(request[1].messages) = 5
    /\ [k \in 3..5 |-> request[1].messages[k].content[1].tool_use_id] =
           [k \in 3..5 |-> CallsOf(1)[k - 2].id]

(***************************************************************************)
(* C15. Every ToolResult is in the history wrapped in a message of its own *)
(* with role "user": a message that holds a tool_result block holds        *)
(* nothing else and has role "user".  Once the k calls of a response have  *)
(* been processed, the history has grown since the adapter call by the raw *)
(* assistant message, if there is one, and by k such messages: by 1 + k    *)
(* messages for a response with a raw assistant message.                   *)
(***************************************************************************)
HoldsToolResult(msg) ==
    \E i \in 1..Len(msg.content) : msg.content[i].type = "tool_result"

C15_OneUserMessagePerToolResult ==
    /\ \A m \in 1..Len(messages) :
          HoldsToolResult(messages[m]) =>
              /\ messages[m].role = "user"
              /\ Len(messages[m].content) = 1
              /\ DOMAIN messages[m].content[1] =
                     {"type", "tool_use_id", "content", "is_error"}
    /\ (pc # "tools" /\ responses # <<>> /\ RequestsTools(Last(responses))) =>
          LET k == Len(Last(responses).tool_calls[1])
              grown == SubSeq(messages, response_at + 1, Len(messages))
          IN IF Last(responses).raw_assistant_message # None
             THEN /\ Len(grown) = 1 + k
                  /\ grown[1].role = "assistant"
                  /\ \A j \in 2..(1 + k) : HoldsToolResult(grown[j])
             ELSE /\ Len(grown) = k
                  /\ \A j \in 1..k : HoldsToolResult(grown[j])

\* One adapter call answered with an assistant message and three calls: the
\* history went from one message to five.
C15_Witness ==
    /\ pc = "loop"
    /\ llm_calls = 1
    /\ response_at = 1
    /\ Last(responses).raw_assistant_message # None
    /\ Len(Last(responses).tool_calls[1]) = 3
    /\ Len(messages) = 5
    /\ [m \in 1..5 |-> messages[m].role] =
           <<"user", "assistant", "user", "user", "user">>

(***************************************************************************)
(* C16. The history is append-only across turns, however the turns end:    *)
(* every step leaves the messages it found in place, unchanged and in      *)
(* their order, and at most adds messages after them.  So every earlier    *)
(* value of the history is a prefix of every later one.                    *)
(***************************************************************************)
IsPrefix(s, t) == Len(s) <= Len(t) /\ SubSeq(t, 1, Len(s)) = s

C16_HistoryAppendOnly == [][IsPrefix(messages, messages')]_vars

\* A third turn ended in Done on top of the user messages of two turns that
\* failed with a provider error.
C16_Witness ==
    /\ TurnReturned
    /\ EndedDone
    /\ Len(messages) = 4
    /\ [m \in 1..4 |-> messages[m].role] =
           <<"user", "user", "user", "assistant">>
    /\ messages[1] = messages[2]

(***************************************************************************)
(* C17. A turn starts by appending the user's input as a user-role message *)
(* with a single text block, before any adapter call of the turn.  So at   *)
(* every adapter call the messages passed are the whole history, earlier   *)
(* turns included; they are not empty and the last one has role "user":    *)
(* the user's text or a tool result.                                       *)
(***************************************************************************)
TurnStarts == pc = "idle" /\ pc' = "loop"
AdapterCalled == llm_calls' = llm_calls + 1

IsUserText(msg) ==
    /\ msg.role = "user"
    /\ Len(msg.content) = 1
    /\ \E u \in UserInputs : msg.content[1] = [type |-> "text", text |-> u]

C17_UserMessageFirst ==
    /\ [][TurnStarts =>
            /\ Len(messages') = Len(messages) + 1
            /\ SubSeq(messages', 1, Len(messages)) = messages
            /\ IsUserText(Last(messages'))
            /\ llm_calls' = 0]_vars
    /\ [][AdapterCalled =>
            /\ request'[1].messages = messages
            /\ messages # <<>>
            /\ Last(messages).role = "user"
            /\ IF llm_calls = 0 THEN IsUserText(Last(messages))
               ELSE IsToolResultMessage(Last(messages))]_vars

\* The first adapter call of a second turn received the first turn's user
\* and assistant messages followed by the new user message.
C17_Witness ==
    /\ llm_calls = 1
    /\ request # None
    /\ Len(request[1].messages) = 3
    /\ [m \in 1..3 |-> request[1].messages[m].role] =
           <<"user", "assistant", "user">>
    /\ IsUserText(request[1].messages[3])

(***************************************************************************)
(* C18. At every adapter call the tool catalog and the tool-choice policy  *)
(* come from the registry as it is at that call: with no tool registered   *)
(* the request has neither a catalog nor a policy; with at least one tool  *)
(* registered the catalog is the definitions of all registered tools in    *)
(* registration order and the policy is "auto".                            *)
(***************************************************************************)
C18_CatalogFromRegistry ==
    [][AdapterCalled =>
         IF tool_registry = <<>>
         THEN /\ "tools" \notin DOMAIN request'[1]
              /\ "tool_choice" \notin DOMAIN request'[1]
         ELSE /\ "tools" \in DOMAIN request'[1]
              /\ Len(request'[1].tools) = Len(tool_registry)
              /\ \A i \in 1..Len(tool_registry) :
                    /\ request'[1].tools[i] = DefinitionOf(tool_registry[i])
                    /\ first_registered[tool_registry[i].name] =
                           Some(tool_registry[i])
              /\ "tool_choice" \in DOMAIN request'[1]
              /\ request'[1].tool_choice = [type |-> "auto"]]_vars

\* bash and then calc were registered before a later turn of the
\* conversation: its adapter call carries both definitions in that order
\* and the policy "auto".
C18_Witness ==
    /\ llm_calls = 1
    /\ request # None
    /\ Len(request[1].messages) = 2
    /\ "tools" \in DOMAIN request[1]
    /\ [i \in 1..Len(request[1].tools) |-> request[1].tools[i].name] =
           <<"bash", "calc">>
    /\ request[1].tool_choice = [type |-> "auto"]

(***************************************************************************)
(* C19. When a turn with max_tool_iterations >= 1 ends at the cap, the     *)
(* calls of its last response have been processed (every well-formed call  *)
(* to a registered tool was executed) and their ToolResults appended: the  *)
(* history ends with one tool-result user message per call, none of which  *)
(* was passed to an adapter call of that turn.  The next turn appends its  *)
(* user message directly after them.                                       *)
(***************************************************************************)
CapEnded ==
    /\ TurnReturned
    /\ max_tool_iterations >= 1
    /\ Len(responses) = max_tool_iterations
    /\ RequestsTools(Last(responses))

C19_CapLeavesUnansweredResults ==
    /\ [](CapEnded =>
            LET calls == Last(responses).tool_calls[1]
                k == Len(calls)
                n == Len(messages)
            IN /\ outcome.value = MaxIterationsMessage
               /\ k >= 1
               /\ n >= k + 1
               /\ \A j \in 1..k :
                     /\ IsToolResultMessage(messages[n - k + j])
                     /\ messages[n - k + j].content[1].tool_use_id =
                            ExpectedId(calls[j])
               /\ \A j \in 1..k :
                     Runnable(calls[j]) <=>
                         \E e \in 1..Len(executed) :
                             /\ executed[e].iteration = max_tool_iterations
                             /\ executed[e].index = j
               /\ llm_calls = max_tool_iterations
               /\ Len(request[1].messages) <= n - k
               /\ request[1].messages =
                      SubSeq(messages, 1, Len(request[1].messages)))
    /\ [][(CapEnded /\ TurnStarts) =>
            /\ Len(messages') = Len(messages) + 1
            /\ IsToolResultMessage(messages'[Len(messages)])
            /\ messages'[Len(messages)] = Last(messages)
            /\ IsUserText(Last(messages'))]_vars

\* With max_tool_iterations = 1 a turn ended at the cap and left a tool
\* result as the last message; the next turn has appended its user message
\* right after it and has not called the adapter yet.
C19_Witness ==
    /\ max_tool_iterations = 1
    /\ pc = "loop"
    /\ llm_calls = 0
    /\ Len(messages) = 3
    /\ IsUserText(messages[1])
    /\ IsToolResultMessage(messages[2])
    /\ IsUserText(messages[3])

(***************************************************************************)
(* C20. A turn aborted by a provider error is not rolled back.  Until its  *)
(* first adapter call a turn's history ends with the user message the turn *)
(* appended; a failing adapter call leaves in the history everything the   *)
(* turn has appended so far, so after a failure on the first call the      *)
(* history still ends with that user message.  The next turn appends its   *)
(* own user message after it and its first adapter call is passed two      *)
(* consecutive user-role messages.                                         *)
(***************************************************************************)
TurnFailed ==
    /\ pc = "idle"
    /\ outcome = Idle("process_message", "raised", "LLMProviderError")

C20_FailedTurnKeepsHistory ==
    /\ []((pc = "loop" /\ llm_calls = 0) => IsUserText(Last(messages)))
    /\ [][(pc = "loop" /\ outcome'.kind = "raised") =>
            /\ IsPrefix(messages, messages')
            /\ Len(messages') = Len(messages)
            /\ llm_calls = 0 => IsUserText(Last(messages'))]_vars
    /\ [](TurnFailed =>
            /\ messages # <<>>
            /\ llm_calls = 1 => IsUserText(Last(messages))
            /\ llm_calls > 1 =>
                   /\ IsToolResultMessage(Last(messages))
                   /\ \E m \in 1..Len(messages) : IsUserText(messages[m]))
    /\ [][(TurnFailed /\ llm_calls = 1 /\ TurnStarts) =>
            /\ messages' = Append(messages, Last(messages'))
            /\ IsUserText(messages'[Len(messages') - 1])
            /\ IsUserText(Last(messages'))]_vars
    /\ [][(AdapterCalled /\ llm_calls = 0) =>
            request'[1].messages = messages]_vars

\* The only turn so far failed on its first adapter call (the Anthropic
\* adapter always returns an assistant message, so a turn that got an
\* answer would have left one); the next turn's first adapter call was
\* passed the two user messages.
C20_Witness ==
    /\ llm = "anthropic"
    /\ max_tool_iterations >= 1
    /\ llm_calls = 1
    /\ request # None
    /\ Len(request[1].messages) = 2
    /\ IsUserText(request[1].messages[1])
    /\ IsUserText(request[1].messages[2])

(***************************************************************************)
(* C21. With max_tool_iterations <= 0 a turn makes no adapter call and     *)
(* executes no tool: it appends only the user message and returns the      *)
(* max-iterations message, without any response having been received.      *)
(***************************************************************************)
NoIterations == max_tool_iterations <= 0

C21_NoIterationsNoCall ==
    /\ [](NoIterations =>
            /\ pc \in {"idle", "loop"}
            /\ llm_calls = 0
            /\ request = None
            /\ responses = <<>>
            /\ executed = <<>>
            /\ current_iteration = 0
            /\ \A m \in 1..Len(messages) : IsUserText(messages[m])
            /\ TurnOver =>
                   outcome = Idle("process_message", "returned",
                                  MaxIterationsMessage))
    /\ [][(NoIterations /\ TurnStarts) =>
            messages' = Append(messages, Last(messages'))]_vars
    /\ [][(NoIterations /\ pc = "loop") =>
            /\ pc' = "idle"
            /\ messages' = messages
            /\ outcome'.kind = "returned"
            /\ outcome'.value = MaxIterationsMessage]_vars

\* An agent built with a negative max_tool_iterations and a registered tool
\* has ended its second turn: two user messages, no adapter call, the
\* max-iterations message returned.
C21_Witness ==
    /\ max_tool_iterations < 0
    /\ tool_registry # <<>>
    /\ TurnReturned
    /\ outcome.value = MaxIterationsMessage
    /\ llm_calls = 0
    /\ executed = <<>>
    /\ Len(messages) = 2

====
